---- MODULE Spec2Model ----
(***************************************************************************)
(* Model of pocket_to_linkwarden.py: the conversion of a Pocket CSV export *)
(* into a Netscape bookmark HTML file.                                     *)
(*                                                                         *)
(* Text is a sequence of one-character strings.  Python's None is the      *)
(* one-element sequence NoneVal, whose element is not a character.         *)
(***************************************************************************)
EXTENDS Integers, Sequences, FiniteSets, TLC

\* ------------------------------------------------------------------------
\* Text helpers
\* ------------------------------------------------------------------------

\* F applied to the value of x, with x evaluated once
Force(x, F(_)) == CHOOSE r \in {F(v) : v \in {x}} : TRUE

Chars(s) == [i \in 1..Len(s) |-> SubSeq(s, i, i)]

NoneVal == <<"None">>

\* a test for None alone, where the code tests truth
TruthyMut(v) == v # NoneVal

\* truth value of a str-or-None, as `if x` / `not x` see it
Truthy(v) == v # NoneVal /\ v # <<>>

\* what an f-string prints for a str-or-None
Str(v) == IF v = NoneVal THEN Chars("None") ELSE v

RECURSIVE NatStr(_)
NatStr(n) ==
    IF n < 10 THEN Chars("0123456789")[n + 1]
    ELSE NatStr(n \div 10) \o Chars("0123456789")[(n % 10) + 1]

\* str.replace(old, new) for a one-character old, by halves
RECURSIVE Replace(_, _, _)
Replace(s0, c, r) ==
    Force(s0, LAMBDA s :
        IF Len(s) = 0 THEN <<>>
        ELSE IF Len(s) = 1 THEN (IF s[1] = c THEN r ELSE s)
        ELSE Replace(SubSeq(s, 1, Len(s) \div 2), c, r)
             \o Replace(SubSeq(s, Len(s) \div 2 + 1, Len(s)), c, r))

\* html.escape(s, quote=False): the quotes stay
escapeMut(s) ==
    Replace(Replace(Replace(s,
        "&",  Chars("&amp;")),
        "<",  Chars("&lt;")),
        ">",  Chars("&gt;"))

\* html.escape(s) with quote=True: & first, then < > " '
escape(s) ==
    Replace(Replace(Replace(Replace(Replace(s,
        "&",  Chars("&amp;")),
        "<",  Chars("&lt;")),
        ">",  Chars("&gt;")),
        "\"", Chars("&quot;")),
        "'",  Chars("&#x27;"))

\* ------------------------------------------------------------------------
\* int(float(s)): line 64.  float() follows Python's grammar
\*   [ws] [sign] ( inf | infinity | nan | number [exponent] ) [ws]
\* and rounds the decimal value to the nearest IEEE-754 double (53-bit
\* significand, ties to even); int() truncates toward zero, raising
\* ValueError for NaN and OverflowError for an infinity.
\* Decimal naturals are digit sequences (most significant first, no leading
\* zero, <<>> for 0) because doubles exceed the checker's integer range.
\* ------------------------------------------------------------------------

DigitChars == {"0", "1", "2", "3", "4", "5", "6", "7", "8", "9"}

DigitVal(c) == CHOOSE d \in 0..9 : Chars("0123456789")[d + 1] = c

UpperCase == Chars("ABCDEFGHIJKLMNOPQRSTUVWXYZ")

LowerCase == Chars("abcdefghijklmnopqrstuvwxyz")

Lower(c) ==
    IF \E i \in 1..26 : UpperCase[i] = c
    THEN LowerCase[CHOOSE i \in 1..26 : UpperCase[i] = c]
    ELSE c

WhiteSpace == {" ", "\t", "\n", "\r"}

\* str.strip()
Strip(s0) ==
    Force(s0, LAMBDA s :
        IF \A i \in 1..Len(s) : s[i] \in WhiteSpace THEN <<>>
        ELSE SubSeq(s,
                    CHOOSE i \in 1..Len(s) :
                        s[i] \notin WhiteSpace /\ \A j \in 1..(i - 1) : s[j] \in WhiteSpace,
                    CHOOSE i \in 1..Len(s) :
                        s[i] \notin WhiteSpace /\ \A j \in (i + 1)..Len(s) : s[j] \in WhiteSpace))

StripZeros(d0) ==
    Force(d0, LAMBDA d :
        IF \A i \in 1..Len(d) : d[i] = 0 THEN <<>>
        ELSE SubSeq(d, CHOOSE i \in 1..Len(d) : d[i] # 0 /\ \A j \in 1..(i - 1) : d[j] = 0,
                    Len(d)))

Zeros(n) == [i \in 1..n |-> 0]

\* digit (["_"] digit)*
IsDigitPart(t0) ==
    Force(t0, LAMBDA t :
        /\ t # <<>>
        /\ \A i \in 1..Len(t) : t[i] \in DigitChars \cup {"_"}
        /\ t[1] # "_" /\ t[Len(t)] # "_"
        /\ \A i \in 1..(Len(t) - 1) : ~(t[i] = "_" /\ t[i + 1] = "_"))

NotUnderscore(c) == c # "_"

\* the digits of a digit part
DigitsOf(t) ==
    Force(SelectSeq(t, NotUnderscore), LAMBDA u : [i \in 1..Len(u) |-> DigitVal(u[i])])

\* t cut at the first element that lies in S
Split(t0, S) ==
    Force(t0, LAMBDA t :
        IF \E i \in 1..Len(t) : t[i] \in S
        THEN Force(CHOOSE i \in 1..Len(t) : t[i] \in S /\ \A j \in 1..(i - 1) : t[j] \notin S,
                   LAMBDA i : [found |-> TRUE, before |-> SubSeq(t, 1, i - 1),
                               after |-> SubSeq(t, i + 1, Len(t))])
        ELSE [found |-> FALSE, before |-> t, after |-> <<>>])

RECURSIVE SmallNat(_)
SmallNat(d) == IF d = <<>> THEN 0 ELSE SmallNat(SubSeq(d, 1, Len(d) - 1)) * 10 + d[Len(d)]

\* an exponent beyond +-ExpCap is far outside the double range either way
ExpCap == 100000

ExpVal(d0) == Force(StripZeros(d0), LAMBDA d : IF Len(d) > 5 THEN ExpCap ELSE SmallNat(d))

\* number [exponent], given the mantissa cut at "." and the exponent text
ParseNumber(neg, hasExp, dot, expo) ==
    LET ip   == dot.before
        fp   == dot.after
        eSgn == expo # <<>> /\ Head(expo) \in {"+", "-"}
        eNeg == expo # <<>> /\ Head(expo) = "-"
        eDig == IF eSgn THEN Tail(expo) ELSE expo
        mantOk == \/ IsDigitPart(ip) /\ (fp = <<>> \/ IsDigitPart(fp))
                  \/ ip = <<>> /\ dot.found /\ IsDigitPart(fp)
        expOk  == ~hasExp \/ IsDigitPart(eDig)
        e    == IF ~hasExp THEN 0
                ELSE IF eNeg THEN 0 - ExpVal(DigitsOf(eDig)) ELSE ExpVal(DigitsOf(eDig))
    IN  IF mantOk /\ expOk
        THEN [kind |-> "finite", neg |-> neg,
              digits |-> StripZeros(DigitsOf(ip) \o DigitsOf(fp)),
              shift |-> e - Len(DigitsOf(fp))]
        ELSE [kind |-> "error", neg |-> FALSE, digits |-> <<>>, shift |-> 0]

\* the text after the sign
ParseBody(neg, body) ==
    LET low == [i \in 1..Len(body) |-> Lower(body[i])]
    IN  IF low = Chars("inf") \/ low = Chars("infinity")
        THEN [kind |-> "inf", neg |-> neg, digits |-> <<>>, shift |-> 0]
        ELSE IF low = Chars("nan")
        THEN [kind |-> "nan", neg |-> neg, digits |-> <<>>, shift |-> 0]
        ELSE Force(Split(body, {"e", "E"}), LAMBDA ex :
                 Force(Split(ex.before, {"."}), LAMBDA dot :
                     ParseNumber(neg, ex.found, dot, ex.after)))

\* float(s) as [kind, neg, digits, shift]: value = (-1)^neg * digits * 10^shift
FloatParse(s) ==
    Force(Strip(s), LAMBDA t :
        Force(IF t # <<>> /\ Head(t) \in {"+", "-"} THEN Tail(t) ELSE t, LAMBDA body :
            ParseBody(t # <<>> /\ Head(t) = "-", body)))

\* --- arithmetic on digit sequences ---

\* d \div 2: the carry into a digit is the parity of the digit before it
Half(d) ==
    StripZeros([i \in 1..Len(d) |->
                  ((IF i > 1 THEN d[i - 1] % 2 ELSE 0) * 10 + d[i]) \div 2])

\* 2*d + c for c in {0, 1}: a digit sends a carry exactly when it is >= 5
DoubleAdd(d, c) ==
    IF d = <<>> THEN (IF c = 0 THEN <<>> ELSE <<c>>)
    ELSE (IF d[1] >= 5 THEN <<1>> ELSE <<>>)
         \o [i \in 1..Len(d) |->
               (2 * d[i] + (IF i = Len(d) THEN c ELSE IF d[i + 1] >= 5 THEN 1 ELSE 0)) % 10]

\* d + 1
Incr(d) ==
    IF \A i \in 1..Len(d) : d[i] = 9 THEN <<1>> \o Zeros(Len(d))
    ELSE LET m == CHOOSE i \in 1..Len(d) : d[i] # 9 /\ \A j \in (i + 1)..Len(d) : d[j] = 9
         IN  [i \in 1..Len(d) |-> IF i < m THEN d[i] ELSE IF i = m THEN d[i] + 1 ELSE 0]

\* a < b for canonical digit sequences
Less(a, b) ==
    \/ Len(a) < Len(b)
    \/ /\ Len(a) = Len(b)
       /\ \E i \in 1..Len(a) : a[i] < b[i] /\ \A j \in 1..(i - 1) : a[j] = b[j]

\* d * 2^n, by halves of n
RECURSIVE TimesPow2(_, _)
TimesPow2(d0, n) ==
    Force(d0, LAMBDA d :
        IF n = 0 \/ d = <<>> THEN d
        ELSE IF n = 1 THEN DoubleAdd(d, 0)
        ELSE TimesPow2(TimesPow2(d, n \div 2), n - n \div 2))

\* significand width of a double, and the exponent at which it overflows
MantBits == 53

MaxBinExp == 1024

\* 2^1024 has 309 decimal digits
MaxDecDigits == 309

PowersOfTwo == [i \in 0..MantBits |-> TimesPow2(<<1>>, i)]

\* number of binary digits of d < 2^53
BitLen(d) == Cardinality({i \in 0..(MantBits - 1) : ~Less(d, PowersOfTwo[i])})

\* shift q0 right until it fits 53 bits: [q, e, rnd, sticky] with
\* q = the input \div 2^e, rnd the last bit dropped and sticky whether
\* anything below that bit was nonzero
RECURSIVE ShiftRight(_, _, _, _)
ShiftRight(q0, e, rnd, sticky) ==
    Force(q0, LAMBDA q :
        IF Less(q, PowersOfTwo[MantBits]) \/ e > MaxBinExp
        THEN [q |-> q, e |-> e, rnd |-> rnd, sticky |-> sticky]
        ELSE IF sticky \/ rnd = 1
             THEN ShiftRight(Half(q), e + 1, q[Len(q)] % 2, TRUE)
             ELSE ShiftRight(Half(q), e + 1, q[Len(q)] % 2, FALSE))

DecStr(d) == IF d = <<>> THEN <<"0">> ELSE [i \in 1..Len(d) |-> Chars("0123456789")[d[i] + 1]]

\* ipart >= 2^53: keep 53 bits, round to nearest, ties to even
RoundBig(sr) ==
    LET up   == sr.rnd = 1 /\ (sr.sticky \/ sr.q[Len(sr.q)] % 2 = 1)
        over == \/ sr.e + MantBits > MaxBinExp
                \/ sr.e + MantBits = MaxBinExp /\ up /\ Incr(sr.q) = PowersOfTwo[MantBits]
    IN  IF over THEN [kind |-> "inf", digits |-> <<>>]
        ELSE [kind |-> "int", digits |-> TimesPow2(IF up THEN Incr(sr.q) ELSE sr.q, sr.e)]

\* ipart < 2^53: it is exact, with p bits left for the k-digit fraction fpart;
\* the double is ipart + 1 when the fraction is within half a unit in the
\* last place of it (a tie goes to the even significand)
RoundSmall(ipart, fpart, k) ==
    LET p      == MantBits - BitLen(ipart)
        one    == <<1>> \o Zeros(k)
    IN  IF \A i \in 1..k : fpart[i] = 0 THEN [kind |-> "int", digits |-> ipart]
        ELSE Force(TimesPow2(StripZeros(Incr([i \in 1..k |-> 9 - fpart[i]])), p + 1),
                   LAMBDA scaled :
                       IF \/ Less(scaled, one)
                          \/ scaled = one /\ (p >= 1 \/ ipart[Len(ipart)] % 2 = 1)
                       THEN [kind |-> "int", digits |-> Incr(ipart)]
                       ELSE [kind |-> "int", digits |-> ipart])

\* |int(float)| for the finite value digits * 10^shift, or "inf" when the
\* nearest double is an infinity
TruncRounded(digits, shift) ==
    LET k == IF shift < 0 THEN 0 - shift ELSE 0
        n == Len(digits)
    IN  IF digits = <<>> THEN [kind |-> "int", digits |-> <<>>]
        ELSE IF n + shift > MaxDecDigits THEN [kind |-> "inf", digits |-> <<>>]
        ELSE IF n + shift < 0 THEN [kind |-> "int", digits |-> <<>>]
        ELSE Force(IF shift >= 0 THEN digits \o Zeros(shift)
                   ELSE IF n <= k THEN <<>> ELSE SubSeq(digits, 1, n - k),
                   LAMBDA ipart :
             Force(IF shift >= 0 THEN <<>>
                   ELSE IF n <= k THEN Zeros(k - n) \o digits
                   ELSE SubSeq(digits, n - k + 1, n),
                   LAMBDA fpart :
                 IF Less(ipart, PowersOfTwo[MantBits])
                 THEN RoundSmall(ipart, fpart, Len(fpart))
                 ELSE Force(ShiftRight(ipart, 0, 0, \E i \in 1..Len(fpart) : fpart[i] # 0),
                            RoundBig)))

\* int(float(s)): [tag |-> "int", text |-> str(result)] or the exception raised
IntOfFloat(s) ==
    Force(FloatParse(s), LAMBDA f :
        IF f.kind = "error" \/ f.kind = "nan" THEN [tag |-> "ValueError", text |-> s]
        ELSE IF f.kind = "inf" THEN [tag |-> "OverflowError", text |-> s]
        ELSE Force(TruncRounded(f.digits, f.shift), LAMBDA r :
                 IF r.kind = "inf" THEN [tag |-> "OverflowError", text |-> s]
                 ELSE [tag |-> "int",
                       text |-> (IF f.neg /\ r.digits # <<>> THEN <<"-">> ELSE <<>>)
                                \o DecStr(r.digits)]))

\* ------------------------------------------------------------------------
\* Inputs
\* ------------------------------------------------------------------------

\* most lines (blank ones included) that follow the header line
MaxRows == 2

csv_filepath == Chars("pocket.csv")

html_filepath == Chars("linkwarden_import.html")

NoFile == <<"NoFile">>

\* what the output path holds before the run, when it exists
OldContent == Chars("old\n")

\* a check that forgets the tags column
RequiredColumnsMut == <<Chars("title"), Chars("url"), Chars("time_added")>>

\* the columns line 35 requires
RequiredColumns == <<Chars("title"), Chars("url"), Chars("time_added"), Chars("tags")>>

\* header lines: a Pocket export, one with the columns in another order and
\* no status, one without tags, and a blank first line
HeaderSamples ==
    { <<Chars("title"), Chars("url"), Chars("time_added"), Chars("tags"), Chars("status")>>,
      <<Chars("url"), Chars("title"), Chars("time_added"), Chars("tags")>>,
      <<Chars("title"), Chars("url"), Chars("time_added")>>,
      <<>> }

\* lines after the header, as the csv reader splits them into fields
RowSamples ==
    { <<Chars("Foo"), Chars("http://a"), Chars("1700000000"), Chars("a,b"), Chars("0")>>,
      <<Chars(""), Chars("http://a?x=1&y='2'"), Chars(""), Chars("")>>,
      <<Chars("Foo"), Chars(""), Chars("17"), Chars("t")>>,
      <<Chars(""), Chars(""), Chars(""), Chars("")>>,
      <<Chars("<s>&\"'"), Chars("http://a"), Chars("not-a-number"), Chars("<\"t\">")>>,
      <<Chars("Foo"), Chars("http://a"), Chars("inf"), Chars("")>>,
      <<Chars("Foo"), Chars("http://a"), Chars("nan"), Chars("t")>>,
      <<Chars("B"), Chars("http://b"), Chars("9007199254740993"), Chars("t")>>,
      <<Chars("B"), Chars("http://b"), Chars("-1.9"), Chars("")>>,
      <<Chars("B"), Chars("http://b"), Chars(" 1e2 "), Chars("t")>>,
      <<Chars("B"), Chars("http://b")>>,
      <<Chars("http://a")>>,
      <<>> }

RowSeqs == UNION { [1..n -> RowSamples] : n \in 0..MaxRows }

\* the lines of a readable input file: empty, or a header and its rows
CsvContents == {<<>>} \cup { <<h>> \o rs : h \in HeaderSamples, rs \in RowSeqs }

\* ------------------------------------------------------------------------
\* State
\* ------------------------------------------------------------------------

VARIABLES
    inStatus,       \* the input path: "ok", "missing" or "unreadable"
    csvLines,       \* the lines of the input file
    outStatus,      \* the output path: "writable", "noparent" or "denied"
    disk,           \* content at html_filepath, NoFile when there is none
    csvfile,        \* file objects: "unopened", "open" or "closed"
    htmlfile,
    pc,             \* position in the program
    exc,            \* the exception in flight, "" when none
    header_written, \* how many of the header's write() calls are done
    fieldnames,     \* reader.fieldnames
    line_num,       \* lines the reader has consumed
    row_num,
    title, url, time_added_str, tags_str,
    escaped_title, escaped_tags, add_date_attr,
    bookmarks_added,
    skipped_due_to_missing_url,
    stdout          \* what print() has produced, one record per call

vars == <<inStatus, csvLines, outStatus, disk, csvfile, htmlfile, pc, exc,
          header_written, fieldnames, line_num, row_num, title, url, time_added_str, tags_str,
          escaped_title, escaped_tags, add_date_attr, bookmarks_added,
          skipped_due_to_missing_url, stdout>>

\* what a step other than WriteHeader leaves alone in any case
env == <<inStatus, csvLines, outStatus, header_written>>

locals == <<title, url, time_added_str, tags_str, escaped_title, escaped_tags, add_date_attr>>

counters == <<bookmarks_added, skipped_due_to_missing_url>>

Msg(kind, args) == [kind |-> kind, args |-> args]

Init ==
    /\ inStatus \in {"ok", "missing", "unreadable"}
    /\ csvLines \in CsvContents
    /\ inStatus # "ok" => csvLines = <<>>
    /\ outStatus \in {"writable", "noparent", "denied"}
    /\ disk \in {NoFile, OldContent}
    /\ outStatus = "noparent" => disk = NoFile
    /\ csvfile = "unopened"
    /\ htmlfile = "unopened"
    /\ pc = "open_csv"
    /\ exc = ""
    /\ header_written = 0
    /\ fieldnames = NoneVal
    /\ line_num = 0
    /\ row_num = 0
    /\ title = NoneVal /\ url = NoneVal /\ time_added_str = NoneVal /\ tags_str = NoneVal
    /\ escaped_title = <<>> /\ escaped_tags = <<>> /\ add_date_attr = <<>>
    /\ bookmarks_added = 0
    /\ skipped_due_to_missing_url = 0
    /\ stdout = <<>>

\* ------------------------------------------------------------------------
\* convert_pocket_csv_to_html_bookmarks
\* ------------------------------------------------------------------------

\* leaving the with block closes whichever file was opened
Closed(f) == IF f = "open" THEN "closed" ELSE f

\* the two open() calls in the other order: the output is created or
\* truncated before the input turns out to be missing
OpenCsvMut ==
    /\ pc = "open_csv"
    /\ IF inStatus = "ok"
       THEN csvfile' = "open" /\ pc' = "open_html" /\ exc' = exc /\ disk' = disk
       ELSE /\ csvfile' = csvfile
            /\ pc' = "except"
            /\ exc' = IF inStatus = "missing" THEN "FileNotFoundError" ELSE "PermissionError"
            /\ disk' = IF outStatus = "writable" THEN <<>> ELSE disk
    /\ UNCHANGED <<env, htmlfile, fieldnames, line_num, row_num, locals, counters, stdout>>

\* line 21: open(csv_filepath, 'r')
OpenCsv ==
    /\ pc = "open_csv"
    /\ IF inStatus = "ok"
       THEN csvfile' = "open" /\ pc' = "open_html" /\ exc' = exc
       ELSE /\ csvfile' = csvfile
            /\ pc' = "except"
            /\ exc' = IF inStatus = "missing" THEN "FileNotFoundError" ELSE "PermissionError"
    /\ UNCHANGED <<env, disk, htmlfile, fieldnames, line_num, row_num, locals, counters, stdout>>

\* line 22: open(html_filepath, 'w') creates or truncates the file
OpenHtml ==
    /\ pc = "open_html"
    /\ IF outStatus = "writable"
       THEN /\ htmlfile' = "open" /\ disk' = <<>> /\ pc' = "write_header"
            /\ UNCHANGED <<csvfile, exc>>
       ELSE /\ csvfile' = Closed(csvfile)
            /\ pc' = "except"
            /\ exc' = IF outStatus = "noparent" THEN "FileNotFoundError" ELSE "PermissionError"
            /\ UNCHANGED <<htmlfile, disk>>
    /\ UNCHANGED <<env, fieldnames, line_num, row_num, locals, counters, stdout>>

\* the eight strings lines 25-32 write
HeaderLines ==
    << Chars("<!DOCTYPE NETSCAPE-Bookmark-file-1>\n"),
       Chars("<!--This is an automatically generated file.\n"),
       Chars("It will be read and overwritten.\n"),
       Chars("Do Not Edit! -->\n"),
       Chars("<META HTTP-EQUIV=\"Content-Type\" CONTENT=\"text/html; charset=UTF-8\">\n"),
       Chars("<TITLE>Bookmarks</TITLE>\n"),
       Chars("<H1>Bookmarks</H1>\n"),
       Chars("<DL><p>\n") >>

HeaderBlock ==
    HeaderLines[1] \o HeaderLines[2] \o HeaderLines[3] \o HeaderLines[4]
    \o HeaderLines[5] \o HeaderLines[6] \o HeaderLines[7] \o HeaderLines[8]

\* lines 25-32, one write() at a time
WriteHeader ==
    /\ pc = "write_header"
    /\ disk' = disk \o HeaderLines[header_written + 1]
    /\ header_written' = header_written + 1
    /\ pc' = IF header_written + 1 = Len(HeaderLines) THEN "check_columns" ELSE "write_header"
    /\ UNCHANGED <<inStatus, csvLines, outStatus, csvfile, htmlfile, exc, fieldnames,
                   line_num, row_num, locals, counters, stdout>>

\* col in reader.fieldnames
InList(col, list) == \E i \in 1..Len(list) : list[i] = col

\* lines 34-38: DictReader takes the first line for its fieldnames, which
\* stay None when the file has no line at all
CheckColumns ==
    /\ pc = "check_columns"
    /\ fieldnames' = IF csvLines = <<>> THEN NoneVal ELSE csvLines[1]
    /\ line_num' = IF csvLines = <<>> THEN 0 ELSE 1
    /\ IF fieldnames' = NoneVal
       THEN \* `col in None` raises TypeError
            /\ exc' = "TypeError" /\ pc' = "except"
            /\ csvfile' = Closed(csvfile) /\ htmlfile' = Closed(htmlfile)
            /\ stdout' = stdout
       ELSE IF ~(\A i \in 1..Len(RequiredColumns) : InList(RequiredColumns[i], fieldnames'))
       THEN /\ stdout' = stdout \o <<Msg("schema_error", RequiredColumns),
                                     Msg("found_columns", fieldnames')>>
            /\ pc' = "returned"
            /\ csvfile' = Closed(csvfile) /\ htmlfile' = Closed(htmlfile)
            /\ exc' = exc
       ELSE /\ pc' = "loop"
            /\ UNCHANGED <<csvfile, htmlfile, exc, stdout>>
    /\ UNCHANGED <<env, disk, row_num, locals, counters>>

\* the next line at or after position i that is not blank, or 0: DictReader
\* skips rows that are []
NextRowAt(i) ==
    IF \E j \in i..Len(csvLines) : csvLines[j] # <<>>
    THEN CHOOSE j \in i..Len(csvLines) :
            csvLines[j] # <<>> /\ \A m \in i..(j - 1) : csvLines[m] = <<>>
    ELSE 0

\* row.get(key, default) on the dict DictReader builds from a line: fields
\* pair with the fieldnames by position, fieldnames beyond the line's last
\* field map to None, and the default serves only a key that is no fieldname
RowGet(names, fields, key, default) ==
    IF InList(key, names)
    THEN LET i == CHOOSE i \in 1..Len(names) :
                     names[i] = key /\ \A j \in (i + 1)..Len(names) : names[j] # key
         IN  IF i <= Len(fields) THEN fields[i] ELSE NoneVal
    ELSE default

UntitledLink(n) == Chars("Untitled Link ") \o NatStr(n)

\* lines 40-50: fetch the next row, read its fields, skip it without a url
ReadRow ==
    /\ pc = "loop"
    /\ \E j \in {NextRowAt(line_num + 1)} :
       IF j = 0
       THEN /\ pc' = "write_footer"
            /\ line_num' = Len(csvLines)
            /\ UNCHANGED <<row_num, locals, counters, stdout>>
       ELSE \E n \in {row_num + 1} :
            \E t \in {RowGet(fieldnames, csvLines[j], Chars("title"), UntitledLink(n))} :
            \E u \in {RowGet(fieldnames, csvLines[j], Chars("url"), NoneVal)} :
                /\ line_num' = j
                /\ row_num' = n
                /\ title' = t
                /\ url' = u
                /\ time_added_str' = RowGet(fieldnames, csvLines[j], Chars("time_added"), NoneVal)
                /\ tags_str' = RowGet(fieldnames, csvLines[j], Chars("tags"), <<>>)
                /\ UNCHANGED <<escaped_title, escaped_tags, add_date_attr, bookmarks_added>>
                /\ IF ~Truthy(u)
                   THEN /\ stdout' = Append(stdout, Msg("skip_warning", <<NatStr(n), Str(t)>>))
                        /\ skipped_due_to_missing_url' = skipped_due_to_missing_url + 1
                        /\ pc' = "loop"
                   ELSE /\ pc' = "escape"
                        /\ UNCHANGED <<stdout, skipped_due_to_missing_url>>
    /\ UNCHANGED <<env, disk, csvfile, htmlfile, exc, fieldnames>>

\* lines 52-66: escape title and tags, format ADD_DATE.  html.escape(None)
\* raises AttributeError; int(float(..)) raises ValueError, which line 65
\* catches, or OverflowError, which it does not
EscapeRow ==
    /\ pc = "escape"
    /\ \E conv \in {IF Truthy(time_added_str) THEN IntOfFloat(time_added_str)
                     ELSE [tag |-> "none", text |-> <<>>]} :
       \E fail \in {IF title = NoneVal THEN "AttributeError"
                    ELSE IF conv.tag = "OverflowError" THEN "OverflowError" ELSE ""} :
           IF fail # ""
           THEN /\ exc' = fail /\ pc' = "except"
                /\ csvfile' = Closed(csvfile) /\ htmlfile' = Closed(htmlfile)
                /\ escaped_title' = IF title = NoneVal THEN escaped_title ELSE escape(title)
                /\ escaped_tags' = IF title = NoneVal THEN escaped_tags
                                   ELSE IF Truthy(tags_str) THEN escape(tags_str) ELSE <<>>
                /\ add_date_attr' = IF title = NoneVal THEN add_date_attr ELSE <<>>
                /\ stdout' = stdout
           ELSE /\ escaped_title' = escape(title)
                /\ escaped_tags' = IF Truthy(tags_str) THEN escape(tags_str) ELSE <<>>
                /\ add_date_attr' =
                      IF conv.tag = "int"
                      THEN Chars(" ADD_DATE=\"") \o conv.text \o Chars("\"")
                      ELSE <<>>
                /\ stdout' =
                      IF conv.tag = "ValueError"
                      THEN Append(stdout, Msg("time_warning", <<title, time_added_str>>))
                      ELSE stdout
                /\ pc' = "write_href"
                /\ UNCHANGED <<csvfile, htmlfile, exc>>
    /\ UNCHANGED <<env, disk, fieldnames, line_num, row_num, title, url, time_added_str,
                   tags_str, counters>>

\* line 70
WriteHref ==
    /\ pc = "write_href"
    /\ disk' = disk \o Chars("    <DT><A HREF=\"") \o escape(url) \o Chars("\"") \o add_date_attr
    /\ pc' = "write_tags"
    /\ UNCHANGED <<env, csvfile, htmlfile, exc, fieldnames, line_num, row_num, locals,
                   counters, stdout>>

\* lines 71-72
WriteTags ==
    /\ pc = "write_tags"
    /\ disk' = IF escaped_tags # <<>>
               THEN disk \o Chars(" TAGS=\"") \o escaped_tags \o Chars("\"")
               ELSE disk
    /\ pc' = "write_close"
    /\ UNCHANGED <<env, csvfile, htmlfile, exc, fieldnames, line_num, row_num, locals,
                   counters, stdout>>

\* lines 73-74
WriteClose ==
    /\ pc = "write_close"
    /\ disk' = disk \o Chars(">") \o escaped_title \o Chars("</A>\n")
    /\ bookmarks_added' = bookmarks_added + 1
    /\ pc' = "loop"
    /\ UNCHANGED <<env, csvfile, htmlfile, exc, fieldnames, line_num, row_num, locals,
                   skipped_due_to_missing_url, stdout>>

Footer == Chars("</DL><p>\n")

\* line 77, then the with block ends
WriteFooter ==
    /\ pc = "write_footer"
    /\ disk' = disk \o Footer
    /\ csvfile' = Closed(csvfile) /\ htmlfile' = Closed(htmlfile)
    /\ pc' = "report"
    /\ UNCHANGED <<env, exc, fieldnames, line_num, row_num, locals, counters, stdout>>

\* lines 79-82
Report ==
    /\ pc = "report"
    /\ stdout' = stdout
                 \o <<Msg("success", <<NatStr(bookmarks_added)>>)>>
                 \o (IF skipped_due_to_missing_url > 0
                     THEN <<Msg("skipped_count", <<NatStr(skipped_due_to_missing_url)>>)>>
                     ELSE <<>>)
                 \o <<Msg("saved_to", <<html_filepath>>)>>
    /\ pc' = "returned"
    /\ UNCHANGED <<env, disk, csvfile, htmlfile, exc, fieldnames, line_num, row_num, locals,
                   counters>>

\* lines 84-85
ExceptFileNotFound ==
    /\ pc = "except"
    /\ exc = "FileNotFoundError"
    /\ stdout' = Append(stdout, Msg("file_not_found", <<csv_filepath>>))
    /\ exc' = ""
    /\ pc' = "returned"
    /\ UNCHANGED <<env, disk, csvfile, htmlfile, fieldnames, line_num, row_num, locals,
                   counters>>

\* the report placed after the try statement, so that a handled error
\* runs on into it
ExceptExceptionMut ==
    /\ pc = "except"
    /\ exc # "FileNotFoundError"
    /\ stdout' = Append(stdout, Msg("unexpected_error", <<Chars(exc)>>))
    /\ exc' = ""
    /\ pc' = "report"
    /\ UNCHANGED <<env, disk, csvfile, htmlfile, fieldnames, line_num, row_num, locals,
                   counters>>

\* lines 86-87; the text of the exception is stood for by its type
ExceptException ==
    /\ pc = "except"
    /\ exc # "FileNotFoundError"
    /\ stdout' = Append(stdout, Msg("unexpected_error", <<Chars(exc)>>))
    /\ exc' = ""
    /\ pc' = "returned"
    /\ UNCHANGED <<env, disk, csvfile, htmlfile, fieldnames, line_num, row_num, locals,
                   counters>>

\* lines 98-103: the caller prints the import instructions after any run
PrintInstructions ==
    /\ pc = "returned"
    /\ stdout' = Append(stdout, Msg("instructions", <<html_filepath>>))
    /\ pc' = "exit"
    /\ UNCHANGED <<env, disk, csvfile, htmlfile, exc, fieldnames, line_num, row_num, locals,
                   counters>>

Next ==
    \/ OpenCsv
    \/ OpenHtml
    \/ WriteHeader
    \/ CheckColumns
    \/ ReadRow
    \/ EscapeRow
    \/ WriteHref
    \/ WriteTags
    \/ WriteClose
    \/ WriteFooter
    \/ Report
    \/ ExceptFileNotFound
    \/ ExceptException
    \/ PrintInstructions

Spec == Init /\ [][Next]_vars

\* ------------------------------------------------------------------------
\* Reading the input and the output back, for the properties below
\* ------------------------------------------------------------------------

TheFourColumns == {Chars("title"), Chars("url"), Chars("time_added"), Chars("tags")}

\* the input has a header line, and it names all four columns
HeaderComplete ==
    /\ csvLines # <<>>
    /\ \A c \in TheFourColumns : \E i \in 1..Len(csvLines[1]) : csvLines[1][i] = c

\* the input has a header line, and it lacks one of the four columns
HeaderLacking ==
    /\ csvLines # <<>>
    /\ \E c \in TheFourColumns : \A i \in 1..Len(csvLines[1]) : csvLines[1][i] # c

\* the field of line j in the column called name, NoneVal when the line ends
\* before that column
FieldOf(j, name) ==
    IF \E i \in 1..Len(csvLines[1]) : csvLines[1][i] = name
    THEN LET col == CHOOSE i \in 1..Len(csvLines[1]) : csvLines[1][i] = name
         IN  IF col <= Len(csvLines[j]) THEN csvLines[j][col] ELSE NoneVal
    ELSE NoneVal

EmptyOrAbsent(v) == v = <<>> \/ v = NoneVal

\* the data rows: the lines after the header that are not blank
DataLineNos == {j \in 2..Len(csvLines) : csvLines[j] # <<>>}

\* the data rows with a non-empty url
UrlLineNos == {j \in DataLineNos : ~EmptyOrAbsent(FieldOf(j, Chars("url")))}

\* 1-based position of line j among the data rows
RowNumberOf(j) == Cardinality({i \in DataLineNos : i <= j})

\* the k-th smallest element of a set of numbers
Nth(S, k) == CHOOSE i \in S : Cardinality({j \in S : j < i}) = k - 1

HasMsg(kind) == \E i \in 1..Len(stdout) : stdout[i].kind = kind

MsgsOf(kind) == SelectSeq(stdout, LAMBDA m : m.kind = kind)

StartsWith(t, pre) == Len(pre) <= Len(t) /\ SubSeq(t, 1, Len(pre)) = pre

EndsWith(t, suf) == Len(suf) <= Len(t) /\ SubSeq(t, Len(t) - Len(suf) + 1, Len(t)) = suf

Drop(t, n) == SubSeq(t, n + 1, Len(t))

DtOpen == Chars("    <DT><A HREF=\"")

\* an optional attribute ` NAME="value"` at the start of t
Attribute(t, name) ==
    IF StartsWith(t, name)
    THEN Force(Split(Drop(t, Len(name)), {"\""}), LAMBDA v :
             [present |-> TRUE, value |-> v.before, rest |-> v.after, closed |-> v.found])
    ELSE [present |-> FALSE, value |-> <<>>, rest |-> t, closed |-> TRUE]

\* a line of the output read as `    <DT><A HREF="h"[ ADD_DATE="d"][ TAGS="t"]>x</A>`
ReadDt(line0) ==
    Force(line0, LAMBDA line :
      Force(Attribute(line, DtOpen), LAMBDA h :
        Force(Attribute(h.rest, Chars(" ADD_DATE=\"")), LAMBDA d :
          Force(Attribute(d.rest, Chars(" TAGS=\"")), LAMBDA g :
            [ok |-> /\ h.present /\ h.closed /\ d.closed /\ g.closed
                    /\ StartsWith(g.rest, <<">">>) /\ EndsWith(g.rest, Chars("</A>"))
                    /\ Len(g.rest) >= 5,
             href |-> h.value,
             has_date |-> d.present, add_date |-> d.value,
             has_tags |-> g.present, tags |-> g.value,
             text |-> SubSeq(g.rest, 2, Len(g.rest) - 4)]))))

\* the last complete line of the output, without its newline
LastLine ==
    LET ends == {i \in 1..(Len(disk) - 1) : disk[i] = "\n"}
        from == IF ends = {} THEN 1 ELSE 1 + CHOOSE i \in ends : \A j \in ends : j <= i
    IN  SubSeq(disk, from, Len(disk) - 1)

\* the loop has just written the line of the row at line_num
JustEmitted ==
    /\ pc = "loop"
    /\ line_num \in UrlLineNos
    /\ bookmarks_added > 0

\* the loop has just skipped the row at line_num
JustSkipped ==
    /\ pc = "loop"
    /\ line_num \in DataLineNos \ UrlLineNos

RunEnded == pc \in {"returned", "exit"}

\* ------------------------------------------------------------------------
\* Properties
\* ------------------------------------------------------------------------

\* C1: when the header has the four columns and both files opened, a run
\* ends with bookmarks_added + skipped_due_to_missing_url equal to the
\* number of data rows and bookmarks_added equal to the number of data rows
\* with a non-empty url.
C1_CountsAtEnd ==
    (RunEnded /\ htmlfile # "unopened" /\ HeaderComplete)
        => /\ bookmarks_added + skipped_due_to_missing_url = Cardinality(DataLineNos)
           /\ bookmarks_added = Cardinality(UrlLineNos)

\* C2: once both files are open and the header has the four columns, no
\* row raises: the run reaches the footer and the success report, and never
\* the exception handlers.
C2_NoRowIsFatal ==
    (htmlfile # "unopened" /\ HeaderComplete)
        => /\ pc # "except"
           /\ ~HasMsg("unexpected_error")
           /\ RunEnded => (HasMsg("success") /\ EndsWith(disk, Footer))

\* C3: a header line that lacks one of the four columns ends the run with
\* the schema error (the required columns, then the columns found) before
\* any data row is processed; the output then holds the header block alone.
C3_SchemaAbort ==
    (HeaderLacking /\ htmlfile # "unopened")
        => /\ row_num = 0 /\ line_num <= 1
           /\ bookmarks_added = 0 /\ skipped_due_to_missing_url = 0
           /\ pc \notin {"loop", "escape", "write_href", "write_tags", "write_close",
                         "write_footer", "report", "except"}
           /\ StartsWith(HeaderBlock, disk)
           /\ RunEnded =>
                 /\ disk = HeaderBlock
                 /\ Len(stdout) >= 2
                 /\ stdout[1] = Msg("schema_error",
                       <<Chars("title"), Chars("url"), Chars("time_added"), Chars("tags")>>)
                 /\ stdout[2] = Msg("found_columns", csvLines[1])
                 /\ \A i \in 1..Len(stdout) :
                       stdout[i].kind \in {"schema_error", "found_columns", "instructions"}

C3_Witness ==
    /\ HeaderLacking
    /\ RunEnded
    /\ HasMsg("schema_error")
    /\ UrlLineNos # {}
    /\ disk = HeaderBlock

\* C4: the success report is printed only when every data row was processed
\* and the closing tag was written, and never in a run that printed one of
\* the fatal messages.
C4_SuccessOnlyWhenComplete ==
    /\ (HasMsg("success") \/ HasMsg("saved_to") \/ HasMsg("skipped_count")) =>
          /\ ~HasMsg("file_not_found")
          /\ ~HasMsg("unexpected_error")
          /\ ~HasMsg("schema_error")
          /\ row_num = Cardinality(DataLineNos)
          /\ bookmarks_added + skipped_due_to_missing_url = Cardinality(DataLineNos)
          /\ EndsWith(disk, Footer)
          /\ htmlfile = "closed"
    /\ pc = "except" => ~HasMsg("success") /\ ~HasMsg("saved_to")

C4_Witness ==
    /\ RunEnded
    /\ HasMsg("unexpected_error")
    /\ bookmarks_added > 0
    /\ ~HasMsg("success")

\* the integer part of the decimal number a text denotes, as str(int) writes it
ExactTrunc(t) ==
    Force(FloatParse(t), LAMBDA f :
        LET n    == Len(f.digits)
            kept == IF f.shift >= 0 THEN f.digits \o Zeros(f.shift)
                    ELSE IF n + f.shift <= 0 THEN <<>>
                    ELSE SubSeq(f.digits, 1, n + f.shift)
        IN  (IF f.neg /\ kept # <<>> THEN <<"-">> ELSE <<>>) \o DecStr(kept))

\* the text is a decimal numeral (not inf, not nan)
IsNumeral(t) == FloatParse(t).kind = "finite"

\* the emitted data rows up to line_num whose time_added is non-empty and
\* no numeral, as the <<title, time_added>> pairs a warning names
BadTimesSoFar ==
    LET bad == {j \in UrlLineNos :
                   /\ j <= line_num
                   /\ ~EmptyOrAbsent(FieldOf(j, Chars("time_added")))
                   /\ ~IsNumeral(FieldOf(j, Chars("time_added")))}
    IN  [k \in 1..Cardinality(bad) |->
            <<FieldOf(Nth(bad, k), Chars("title")), FieldOf(Nth(bad, k), Chars("time_added"))>>]

\* C5: an emitted row whose time_added is a numeral carries ADD_DATE equal
\* to that number truncated to an integer; one whose time_added is empty,
\* absent or no numeral carries no ADD_DATE; and the warnings about
\* time_added are exactly one per emitted row whose time_added is non-empty
\* and no numeral, naming its title and the value.
C5_AddDate ==
    JustEmitted =>
        LET t == FieldOf(line_num, Chars("time_added"))
            r == ReadDt(LastLine)
        IN  /\ r.ok
            /\ IF ~EmptyOrAbsent(t) /\ IsNumeral(t)
               THEN r.has_date /\ r.add_date = ExactTrunc(t)
               ELSE ~r.has_date
            /\ [k \in 1..Len(MsgsOf("time_warning")) |-> MsgsOf("time_warning")[k].args]
                   = BadTimesSoFar

\* C6: a data row whose title is absent or empty is given the title
\* "Untitled Link k", k its 1-based position among the data rows, both in
\* the anchor text and in the missing-URL warning.
C6_Placeholder ==
    /\ (JustEmitted /\ EmptyOrAbsent(FieldOf(line_num, Chars("title"))))
          => ReadDt(LastLine).text
                 = Chars("Untitled Link ") \o NatStr(RowNumberOf(line_num))
    /\ (JustSkipped /\ EmptyOrAbsent(FieldOf(line_num, Chars("title"))))
          => /\ stdout # <<>>
             /\ stdout[Len(stdout)] =
                   Msg("skip_warning",
                       <<NatStr(RowNumberOf(line_num)),
                         Chars("Untitled Link ") \o NatStr(RowNumberOf(line_num))>>)

\* the body of the output, after the header block: complete lines, the
\* k-th being the line of the k-th data row with a non-empty url and the one
\* after the last of them the closing tag, then at most the start of the
\* next row's line
BodyShape(b) ==
    LET ends == {i \in 1..Len(b) : b[i] = "\n"}
        nl   == Cardinality(ends)
        m    == Cardinality(UrlLineNos)
        line(k) == SubSeq(b, IF k = 1 THEN 1 ELSE Nth(ends, k - 1) + 1, Nth(ends, k) - 1)
        tail == Drop(b, IF nl = 0 THEN 0 ELSE Nth(ends, nl))
        opening(k) == DtOpen \o escape(FieldOf(Nth(UrlLineNos, k), Chars("url"))) \o <<"\"">>
    IN  /\ nl <= m + 1
        /\ \A k \in 1..nl :
              IF k <= m
              THEN StartsWith(line(k), opening(k)) /\ EndsWith(line(k), Chars("</A>"))
              ELSE line(k) = Chars("</DL><p>")
        /\ tail # <<>> => (nl < m /\ StartsWith(tail, opening(nl + 1)))
        /\ (pc = "report" \/ HasMsg("success")) => (nl = m + 1 /\ tail = <<>>)

\* C7: from the moment the run opens the output, its content is a prefix of
\* the header block, one <DT> line per data row with a non-empty url in
\* input order, and the closing tag; on normal completion it is the whole
\* of that, with the closing tag once and last.
C7_OutputShape ==
    htmlfile # "unopened" =>
        IF Len(disk) <= Len(HeaderBlock)
        THEN StartsWith(HeaderBlock, disk)
        ELSE StartsWith(disk, HeaderBlock) /\ Force(Drop(disk, Len(HeaderBlock)), BodyShape)

C7_Witness ==
    /\ RunEnded
    /\ HasMsg("success")
    /\ UrlLineNos # {}
    /\ DataLineNos \ UrlLineNos # {}
    /\ bookmarks_added = Cardinality(UrlLineNos)

Entities ==
    { <<"&", Chars("&amp;")>>, <<"<", Chars("&lt;")>>, <<">", Chars("&gt;")>>,
      <<"\"", Chars("&quot;")>>, <<"'", Chars("&#x27;")>> }

\* the entities whose text stands at position i of t
EntitiesAt(t, i) == {e \in Entities : StartsWith(Drop(t, i - 1), e[2])}

\* none of the five characters stands raw in t: each & opens an entity
NothingRaw(t) ==
    \A i \in 1..Len(t) :
        /\ t[i] \notin {"<", ">", "\"", "'"}
        /\ t[i] = "&" => EntitiesAt(t, i) # {}

\* t with every entity read back as its character
Decode(t) ==
    LET inside(i) == \E j \in 1..(i - 1) :
                        \E e \in EntitiesAt(t, j) : j + Len(e[2]) > i
        starts == {i \in 1..Len(t) : ~inside(i)}
    IN  [k \in 1..Cardinality(starts) |->
            LET i == Nth(starts, k)
            IN  IF EntitiesAt(t, i) # {} THEN (CHOOSE e \in EntitiesAt(t, i) : TRUE)[1]
                ELSE t[i]]

\* C8: in an emitted line the HREF value, the TAGS value and the anchor
\* text hold none of & < > " ' raw, and read back to the row's url, tags and
\* title.
C8_Escaped ==
    JustEmitted =>
        Force(ReadDt(LastLine), LAMBDA r :
            /\ r.ok
            /\ NothingRaw(r.href) /\ Decode(r.href) = FieldOf(line_num, Chars("url"))
            /\ NothingRaw(r.text) /\ Decode(r.text) = FieldOf(line_num, Chars("title"))
            /\ IF r.has_tags
               THEN NothingRaw(r.tags) /\ Decode(r.tags) = FieldOf(line_num, Chars("tags"))
               ELSE EmptyOrAbsent(FieldOf(line_num, Chars("tags"))))

C8_Witness ==
    /\ JustEmitted
    /\ FieldOf(line_num, Chars("title")) = Chars("<s>&\"'")
    /\ FieldOf(line_num, Chars("tags")) = Chars("<\"t\">")
    /\ ReadDt(LastLine).text = Chars("&lt;s&gt;&amp;&quot;&#x27;")

\* C9: when the input path does not exist the run never opens the output,
\* no step changes what the output path holds, and the run ends having
\* printed the file-not-found error that names the input path.
C9_MissingInputLeavesOutput ==
    /\ [](inStatus = "missing" =>
            /\ htmlfile = "unopened"
            /\ ~HasMsg("unexpected_error")
            /\ RunEnded => (stdout # <<>> /\ stdout[1] = Msg("file_not_found", <<csv_filepath>>)))
    /\ [][inStatus = "missing" => disk' = disk]_vars

C9_Witness ==
    /\ inStatus = "missing"
    /\ RunEnded
    /\ disk = OldContent
    /\ HasMsg("file_not_found")

\* C10: the file-not-found message is printed only when the input file is
\* missing; a run whose input opened and whose output could not be created
\* reports the unexpected-error message instead.
C10_NotFoundOnlyForInput ==
    /\ HasMsg("file_not_found") => inStatus = "missing"
    /\ (RunEnded /\ inStatus = "ok" /\ outStatus # "writable")
          => (HasMsg("unexpected_error") /\ ~HasMsg("file_not_found"))

====
